---- MODULE Spec2Model ----
(***************************************************************************)
(* SecureIDUploader: the upload / retrieve / delete lifecycle of the file  *)
(* controller over its two stores, the `File` metadata collection and the  *)
(* GridFS bucket `uploads`.                                                *)
(*                                                                         *)
(* Strings whose length or whitespace matters (originalName, description)  *)
(* are sequences of character codes; byte buffers are sequences of bytes.  *)
(* Every `await` of a handler is one step, so that handlers interleave     *)
(* where the event loop lets them.                                         *)
(***************************************************************************)
EXTENDS Integers, Sequences, FiniteSets, TLC

(***************************************************************************)
(* Bounds of the model                                                     *)
(***************************************************************************)
\* ObjectIds the process generates (blob ids and record ids share the space)
MaxOids == 4
\* chunkSizeBytes of the bucket, scaled down from 255 * 1024
ChunkSize == 2
\* limits.fileSize, i.e. the configured MAX_FILE_SIZE, scaled down
MaxFileSize == 3

(***************************************************************************)
(* Program constants                                                       *)
(***************************************************************************)
NameMaxLength == 500
DescMaxLength == 1000
SPACE == 32

Slots == {1, 2}

(***************************************************************************)
(* Pure helpers                                                            *)
(***************************************************************************)
Fill(n, c) == [k \in 1..n |-> c]

RECURSIVE TrimLeft(_)
TrimLeft(str) ==
  IF Len(str) > 0 /\ Head(str) = SPACE THEN TrimLeft(Tail(str)) ELSE str

RECURSIVE TrimRight(_)
TrimRight(str) ==
  IF Len(str) > 0 /\ str[Len(str)] = SPACE
  THEN TrimRight(SubSeq(str, 1, Len(str) - 1))
  ELSE str

\* mutation: the setter removes the leading whitespace only
Trim_leftOnly(str) == TrimLeft(str)

\* mongoose `trim: true` setter (String.prototype.trim)
Trim(str) == TrimRight(TrimLeft(str))

\* the bucket splits a buffer into chunks of chunkSizeBytes
RECURSIVE SplitChunks(_)
SplitChunks(buffer) ==
  IF Len(buffer) = 0 THEN << >>
  ELSE IF Len(buffer) <= ChunkSize THEN << buffer >>
  ELSE << SubSeq(buffer, 1, ChunkSize) >>
         \o SplitChunks(SubSeq(buffer, ChunkSize + 1, Len(buffer)))

\* Buffer.concat(chunks)
RECURSIVE BufferConcat(_)
BufferConcat(chunks) ==
  IF Len(chunks) = 0 THEN << >> ELSE Head(chunks) \o BufferConcat(Tail(chunks))

allowedTypes ==
  { "image/jpeg", "image/jpg", "image/png", "image/gif", "image/webp",
    "application/pdf", "application/msword",
    "application/vnd.openxmlformats-officedocument.wordprocessingml.document",
    "application/vnd.ms-excel",
    "application/vnd.openxmlformats-officedocument.spreadsheetml.sheet",
    "text/plain", "text/csv" }

\* mutation: a filter that lets every declared type through
fileFilter_any(file) == file.mimetype = file.mimetype

\* cb(null, true) iff the declared type is allowed
fileFilter(file) == file.mimetype \in allowedTypes

categoryEnum ==
  { "id_front", "id_back", "passport", "drivers_license", "utility_bill",
    "bank_statement", "other" }

\* `x || 'other'`: an absent field and the empty string are both falsy
OrDefault(x, d) == IF x = "" THEN d ELSE x

\* new File({...}): the schema's setters applied to the controller's values
NewFile(oid, originalname, mimetype, size, category, description, fileId) ==
  [ _id          |-> oid,
    originalName |-> Trim(originalname),
    mimeType     |-> mimetype,
    size         |-> size,
    category     |-> OrDefault(category, "other"),
    description  |-> Trim(description),
    gridfsId     |-> fileId,
    isGridFS     |-> TRUE ]

\* the paths that fail the schema's validators on save()
ValidationErrors(doc) ==
     (IF Len(doc.originalName) = 0 \/ Len(doc.originalName) > NameMaxLength
      THEN {"originalName"} ELSE {})
  \cup (IF doc.mimeType = "" THEN {"mimeType"} ELSE {})
  \cup (IF doc.category \notin categoryEnum THEN {"category"} ELSE {})
  \cup (IF Len(doc.description) > DescMaxLength THEN {"description"} ELSE {})
  \cup (IF doc.gridfsId = 0 THEN {"gridfsId"} ELSE {})

\* what the handlers put in a response for a record (never gridfsId)
PublicView(doc) ==
  [ id           |-> doc._id,
    originalName |-> doc.originalName,
    mimeType     |-> doc.mimeType,
    size         |-> doc.size,
    category     |-> doc.category,
    description  |-> doc.description ]

(***************************************************************************)
(* Requests the clients send                                               *)
(***************************************************************************)
PngFile == [ originalname |-> << 97 >>, mimetype |-> "image/png",
             buffer |-> << 1, 2, 3 >> ]
PdfFile == [ originalname |-> << SPACE, 98, SPACE >>,
             mimetype |-> "application/pdf", buffer |-> << 4 >> ]
ExeFile == [ originalname |-> << 101 >>,
             mimetype |-> "application/x-executable", buffer |-> << 9 >> ]
LongNameFile == [ originalname |-> Fill(NameMaxLength + 1, 110),
                  mimetype |-> "text/plain", buffer |-> << 5, 6 >> ]
BigFile == [ originalname |-> << 99 >>, mimetype |-> "text/csv",
             buffer |-> Fill(MaxFileSize + 1, 7) ]

PlainBody    == [ category |-> "", description |-> << >> ]
PassportBody == [ category |-> "passport", description |-> << SPACE, 100 >> ]
BogusBody    == [ category |-> "bogus", description |-> << >> ]
LongDescBody == [ category |-> "other",
                  description |-> Fill(DescMaxLength + 1, 100) ]

\* upload.single('file'): at most one file part, plus the form fields
SingleRequests ==
  { [ files |-> << PngFile >>,      body |-> PlainBody ],
    [ files |-> << PdfFile >>,      body |-> PassportBody ],
    [ files |-> << PngFile >>,      body |-> BogusBody ],
    [ files |-> << PdfFile >>,      body |-> LongDescBody ],
    [ files |-> << LongNameFile >>, body |-> PlainBody ],
    [ files |-> << ExeFile >>,      body |-> PlainBody ],
    [ files |-> << BigFile >>,      body |-> PlainBody ],
    [ files |-> << >>,              body |-> PlainBody ] }

\* upload.array('files', 10)
MultiRequests ==
  { [ files |-> << PngFile, PdfFile >>,      body |-> PassportBody ],
    [ files |-> << LongNameFile, PngFile >>, body |-> PlainBody ],
    [ files |-> << PngFile, ExeFile >>,      body |-> PlainBody ],
    [ files |-> << PdfFile, BigFile >>,      body |-> PlainBody ],
    [ files |-> << >>,                       body |-> PlainBody ] }

\* req.params.id
IdParams == 1..MaxOids

(***************************************************************************)
(* State                                                                   *)
(***************************************************************************)
VARIABLES
  readyState,    \* mongoose.connection.readyState: 1 connected, 0 not
  gridFSBucket,  \* the module-level bucket handle: FALSE is null
  files,         \* the File collection: _id -> document
  uploads,       \* the GridFS bucket `uploads`: file id -> stored file
  oidCounter,    \* the last ObjectId generated
  ops,           \* the request each handler slot is serving
  original,      \* history: record id -> the buffer uploaded for it
  removed,       \* history: record ids deleted from the File collection
  unlinked,      \* history: blob ids deleted from the bucket
  deletedOk,     \* history: the deletes that reported success
  supplied,      \* history: record id -> the values the client sent for it
  overlapped,    \* history: the slots whose delete arrived while a delete of
                 \* the same id, which another slot still holds, was in progress
  NODE_ENV       \* process.env.NODE_ENV

vars == << readyState, gridFSBucket, files, uploads, oidCounter, ops,
           original, removed, unlinked, deletedOk, supplied, overlapped,
           NODE_ENV >>

stores  == << files, uploads >>
history == << original, removed, unlinked, deletedOk, supplied, overlapped >>

\* history: the values of a file part and of the form fields as sent
Supplied(f, body) ==
  [ originalName |-> f.originalname, mimeType |-> f.mimetype,
    size |-> Len(f.buffer), category |-> body.category,
    description |-> body.description ]

\* findById(...) resolving to null
NoDoc == [ _id |-> 0, originalName |-> << >>, mimeType |-> "", size |-> 0,
           category |-> "", description |-> << >>, gridfsId |-> 0,
           isGridFS |-> FALSE ]

\* no response sent yet
NoRes == [ status |-> 0, success |-> FALSE, message |-> "", error |-> "",
           file |-> PublicView(NoDoc), files |-> << >>, errors |-> << >>,
           json |-> FALSE, disposition |-> "", contentType |-> "",
           data |-> << >> ]

\* res.status(status).json({ success, message, error })
Json(status, success, message, error) ==
  [ NoRes EXCEPT !.status = status, !.success = success, !.json = TRUE,
                 !.message = message, !.error = error ]

\* res.set({...}); res.send(fileBuffer)
Send(contentType, disposition, fileBuffer) ==
  [ NoRes EXCEPT !.status = 200, !.contentType = contentType,
                 !.disposition = disposition, !.data = fileBuffer ]

Idle == [ kind |-> "idle", pc |-> "idle", files |-> << >>,
          body |-> PlainBody, id |-> 0, gone |-> FALSE, gridfsId |-> 0,
          file |-> NoDoc, i |-> 0, uploadedFiles |-> << >>,
          errors |-> << >>, res |-> NoRes,
          wrote |-> {}, created |-> {} ]

\* history kept in the slot: `wrote` and `created` are the blob ids and the
\* record ids the request has added to the stores

\* the handler in slot s moves to the await named pc
Goto(s, pc) == ops' = [ops EXCEPT ![s].pc = pc]

\* the handler in slot s sends its response and ends
Respond(s, res) == ops' = [ops EXCEPT ![s].pc = "done", ![s].res = res]

\* a free slot takes the request: slot 1 any request, the other slots only
\* the requests that are let overlap with the one slot 1 is serving
Admit(s, overlap) ==
  /\ ops[s].kind = "idle"
  /\ overlap \/ s = 1

(***************************************************************************)
(* config/db.js and config/gridfs.js                                       *)
(***************************************************************************)
Outcomes == { "resolve", "reject" }

\* await ensureConnection(): connectDB() runs only when not connected
ensureConnection(outcome) ==
  IF readyState = 1
  THEN outcome = "resolve" /\ readyState' = readyState
  ELSE readyState' = (IF outcome = "resolve" THEN 1 ELSE readyState)

\* the handle getGridFSBucket() returns: created on demand when connected
getGridFSBucket == gridFSBucket \/ readyState = 1

\* the document openUploadStream(filename, options).end(fileBuffer) stores
StoredFile(fileBuffer, filename, options) ==
  [ filename    |-> filename,
    contentType |-> options.contentType,
    metadata    |-> options.metadata,
    length      |-> Len(fileBuffer),
    chunks      |-> SplitChunks(fileBuffer) ]

\* mutation: the promise resolves with an id although nothing was stored
uploadToGridFS_lost(fileBuffer, filename, options, outcome) ==
  /\ gridFSBucket' = getGridFSBucket
  /\ IF outcome = "resolve"
     THEN /\ getGridFSBucket
          /\ readyState = 1
          /\ oidCounter < MaxOids
          /\ oidCounter' = oidCounter + 1
          /\ uploads' = uploads
     ELSE UNCHANGED << oidCounter, uploads >>

\* uploadToGridFS(fileBuffer, filename, options); the id is oidCounter'
uploadToGridFS(fileBuffer, filename, options, outcome) ==
  /\ gridFSBucket' = getGridFSBucket
  /\ IF outcome = "resolve"
     THEN /\ getGridFSBucket
          /\ readyState = 1
          /\ oidCounter < MaxOids
          /\ oidCounter' = oidCounter + 1
          /\ uploads' = (oidCounter + 1 :> StoredFile(fileBuffer, filename, options))
                          @@ uploads
     ELSE UNCHANGED << oidCounter, uploads >>

\* the message of the error a store call rejects with
BucketError == IF getGridFSBucket THEN "store error"
                                  ELSE "GridFS bucket not initialized"

\* whether downloadFromGridFS(fileId) can resolve, and with what
CanDownload(fileId) ==
  getGridFSBucket /\ readyState = 1 /\ fileId \in DOMAIN uploads

\* mutation: the promise resolves on the first 'data' event
downloadFromGridFS_firstChunk(fileId) ==
  IF Len(uploads[fileId].chunks) = 0 THEN << >> ELSE uploads[fileId].chunks[1]

downloadFromGridFS(fileId) == BufferConcat(uploads[fileId].chunks)

DownloadError(fileId) ==
  IF getGridFSBucket /\ readyState = 1 /\ fileId \notin DOMAIN uploads
  THEN "FileNotFound" ELSE BucketError

\* mutation: the call resolves also when no file has the id
deleteFromGridFS_tolerant(fileId, outcome) ==
  /\ gridFSBucket' = getGridFSBucket
  /\ IF outcome = "resolve"
     THEN /\ getGridFSBucket
          /\ readyState = 1
          /\ uploads' = [b \in DOMAIN uploads \ {fileId} |-> uploads[b]]
          /\ unlinked' = unlinked \cup (DOMAIN uploads \cap {fileId})
     ELSE UNCHANGED << uploads, unlinked >>

\* mutation: the call resolves without removing the blob
deleteFromGridFS_keep(fileId, outcome) ==
  /\ gridFSBucket' = getGridFSBucket
  /\ IF outcome = "resolve"
     THEN /\ getGridFSBucket
          /\ readyState = 1
          /\ fileId \in DOMAIN uploads
          /\ UNCHANGED << uploads, unlinked >>
     ELSE UNCHANGED << uploads, unlinked >>

\* deleteFromGridFS(fileId): bucket.delete throws when no file has the id
deleteFromGridFS(fileId, outcome) ==
  /\ gridFSBucket' = getGridFSBucket
  /\ IF outcome = "resolve"
     THEN /\ getGridFSBucket
          /\ readyState = 1
          /\ fileId \in DOMAIN uploads
          /\ uploads' = [b \in DOMAIN uploads \ {fileId} |-> uploads[b]]
          /\ unlinked' = unlinked \cup {fileId}
     ELSE UNCHANGED << uploads, unlinked >>

(***************************************************************************)
(* models/File.js                                                          *)
(***************************************************************************)
\* File.findById(id), when the query resolves
findById(id) == IF id \in DOMAIN files THEN files[id] ELSE NoDoc

\* doc.save(): validation first, then the insert
save(doc, buffer, outcome) ==
  IF outcome = "resolve"
  THEN /\ ValidationErrors(doc) = {}
       /\ readyState = 1
       /\ files' = (doc._id :> doc) @@ files
       /\ original' = (doc._id :> buffer) @@ original
  ELSE UNCHANGED << files, original >>

SaveError(doc) ==
  IF ValidationErrors(doc) # {} THEN "File validation failed"
                                ELSE "store error"

\* File.findByIdAndDelete(id): resolves (to null) also when nothing matches
findByIdAndDelete(id, outcome) ==
  IF outcome = "resolve"
  THEN /\ readyState = 1
       /\ files' = [f \in DOMAIN files \ {id} |-> files[f]]
       /\ removed' = removed \cup (DOMAIN files \cap {id})
  ELSE UNCHANGED << files, removed >>

(***************************************************************************)
(* middleware/upload.js and the error middleware of server.js              *)
(***************************************************************************)
NoError == [ code |-> "", message |-> "", invalidType |-> FALSE,
             bufferingTimedOut |-> FALSE ]

\* cb(new Error(`Invalid file type: ...`), false)
InvalidTypeError ==
  [ NoError EXCEPT !.invalidType = TRUE, !.message = "Invalid file type" ]

\* the MulterError raised when a part exceeds limits.fileSize
FileSizeError ==
  [ NoError EXCEPT !.code = "LIMIT_FILE_SIZE", !.message = "File too large" ]

\* mutation: multer configured without limits.fileSize
RECURSIVE multer_noLimit(_)
multer_noLimit(parts) ==
  IF Len(parts) = 0 THEN NoError
  ELSE IF ~fileFilter(Head(parts)) THEN InvalidTypeError
  ELSE multer_noLimit(Tail(parts))

\* the error multer passes to next() for the file parts, taken in order: the
\* filter sees a part's declared type before its bytes are counted
RECURSIVE multer(_)
multer(parts) ==
  IF Len(parts) = 0 THEN NoError
  ELSE IF ~fileFilter(Head(parts)) THEN InvalidTypeError
  ELSE IF Len(Head(parts).buffer) > MaxFileSize
       THEN FileSizeError
  ELSE multer(Tail(parts))

\* app.use((err, req, res, next) => ...)
errorMiddleware(err) ==
  IF err.code = "LIMIT_FILE_SIZE"
  THEN Json(400, FALSE, "File too large. Maximum size is 100MB", "")
  ELSE IF err.invalidType
  THEN Json(400, FALSE, err.message, "")
  ELSE IF err.bufferingTimedOut
  THEN Json(503, FALSE, "Database connection timeout. Please try again.", "")
  ELSE Json(500, FALSE,
            IF NODE_ENV = "production" THEN "Internal server error"
                                       ELSE err.message,
            "")

\* the route: multer first, the controller only when multer raised no error
Route(s, op) ==
  ops' = [ops EXCEPT ![s] =
            IF multer(op.files) = NoError
            THEN [op EXCEPT !.pc = "ensureConnection"]
            ELSE [op EXCEPT !.pc = "done",
                            !.res = errorMiddleware(multer(op.files))]]

\* the ObjectIds left suffice for the blobs and records of the request
OidsLeft(parts) ==
  multer(parts) = NoError => oidCounter + 2 * Len(parts) <= MaxOids

(***************************************************************************)
(* uploadFile: POST /api/files/upload                                      *)
(***************************************************************************)
\* mutation: the catch block answers as if the upload had succeeded
uploadFile_catch_ok(s, message) ==
  Respond(s, Json(201, TRUE, "File uploaded successfully", message))

\* catch (error): 500 with the error's message
uploadFile_catch(s, message) ==
  Respond(s, Json(500, FALSE, "Error uploading file", message))

uploadFile_request(s, req, overlap) ==
  /\ Admit(s, overlap)
  /\ OidsLeft(req.files)
  /\ Route(s, [Idle EXCEPT !.kind = "upload", !.files = req.files,
                           !.body = req.body])
  /\ UNCHANGED << NODE_ENV, readyState, gridFSBucket, oidCounter, stores, history >>

uploadFile_ensureConnection(s) ==
  /\ ops[s].kind = "upload" /\ ops[s].pc = "ensureConnection"
  /\ \E outcome \in Outcomes :
       /\ ensureConnection(outcome)
       /\ IF outcome = "reject"
          THEN uploadFile_catch(s, "connect failed")
          ELSE IF Len(ops[s].files) = 0
          THEN Respond(s, Json(400, FALSE, "No file uploaded", ""))
          ELSE Goto(s, "uploadToGridFS")
  /\ UNCHANGED << NODE_ENV, gridFSBucket, oidCounter, stores, history >>

uploadFile_uploadToGridFS(s) ==
  /\ ops[s].kind = "upload" /\ ops[s].pc = "uploadToGridFS"
  /\ LET f == ops[s].files[1] IN
     \E outcome \in Outcomes :
       /\ uploadToGridFS(f.buffer, f.originalname,
                         [ contentType |-> OrDefault(f.mimetype, "application/octet-stream"),
                           metadata    |-> ops[s].body ],
                         outcome)
       /\ IF outcome = "resolve"
          THEN ops' = [ops EXCEPT ![s].pc = "save", ![s].gridfsId = oidCounter',
                                  ![s].wrote = @ \cup {oidCounter'}]
          ELSE uploadFile_catch(s, BucketError)
  /\ UNCHANGED << NODE_ENV, readyState, files, history >>

uploadFile_save(s) ==
  /\ ops[s].kind = "upload" /\ ops[s].pc = "save"
  /\ oidCounter < MaxOids
  /\ oidCounter' = oidCounter + 1
  /\ LET f   == ops[s].files[1]
         doc == NewFile(oidCounter + 1, f.originalname, f.mimetype,
                        Len(f.buffer), ops[s].body.category,
                        ops[s].body.description, ops[s].gridfsId)
     IN
     \E outcome \in Outcomes :
       /\ save(doc, f.buffer, outcome)
       /\ supplied' = IF outcome = "resolve"
                      THEN (doc._id :> Supplied(f, ops[s].body)) @@ supplied
                      ELSE supplied
       /\ IF outcome = "resolve"
          THEN ops' = [ops EXCEPT
                         ![s].pc = "done",
                         ![s].created = @ \cup {doc._id},
                         ![s].res = [Json(201, TRUE, "File uploaded successfully", "")
                                       EXCEPT !.file = PublicView(doc)]]
          ELSE uploadFile_catch(s, SaveError(doc))
  /\ UNCHANGED << NODE_ENV, readyState, gridFSBucket, uploads, removed, unlinked, deletedOk, overlapped >>

(***************************************************************************)
(* uploadMultipleFiles: POST /api/files/upload-multiple                    *)
(***************************************************************************)
uploadMultipleFiles_request(s, req, overlap) ==
  /\ Admit(s, overlap)
  /\ OidsLeft(req.files)
  /\ Route(s, [Idle EXCEPT !.kind = "uploadMultiple", !.files = req.files,
                           !.body = req.body])
  /\ UNCHANGED << NODE_ENV, readyState, gridFSBucket, oidCounter, stores, history >>

uploadMultipleFiles_ensureConnection(s) ==
  /\ ops[s].kind = "uploadMultiple" /\ ops[s].pc = "ensureConnection"
  /\ \E outcome \in Outcomes :
       /\ ensureConnection(outcome)
       /\ IF outcome = "reject"
          THEN Respond(s, Json(500, FALSE, "Error uploading files", "connect failed"))
          ELSE IF Len(ops[s].files) = 0
          THEN Respond(s, Json(400, FALSE, "No files uploaded", ""))
          ELSE ops' = [ops EXCEPT ![s].pc = "uploadToGridFS", ![s].i = 1]
  /\ UNCHANGED << NODE_ENV, gridFSBucket, oidCounter, stores, history >>

\* the end of one iteration of `for (const file of req.files)`: the next
\* file, or the 201 response after the last one
NextFile(s, uploadedFiles, errors, created) ==
  IF ops[s].i < Len(ops[s].files)
  THEN ops' = [ops EXCEPT ![s].pc = "uploadToGridFS", ![s].i = @ + 1,
                          ![s].gridfsId = 0,
                          ![s].uploadedFiles = uploadedFiles,
                          ![s].errors = errors,
                          ![s].created = @ \cup created]
  ELSE ops' = [ops EXCEPT ![s].pc = "done",
                          ![s].uploadedFiles = uploadedFiles,
                          ![s].errors = errors,
                          ![s].created = @ \cup created,
                          ![s].res = [Json(201, TRUE, "file(s) uploaded successfully", "")
                                        EXCEPT !.files = uploadedFiles,
                                               !.errors = errors]]

uploadMultipleFiles_uploadToGridFS(s) ==
  /\ ops[s].kind = "uploadMultiple" /\ ops[s].pc = "uploadToGridFS"
  /\ LET f == ops[s].files[ops[s].i] IN
     \E outcome \in Outcomes :
       /\ uploadToGridFS(f.buffer, f.originalname,
                         [ contentType |-> OrDefault(f.mimetype, "application/octet-stream"),
                           metadata    |-> [ category |-> ops[s].body.category ] ],
                         outcome)
       /\ IF outcome = "resolve"
          THEN ops' = [ops EXCEPT ![s].pc = "save", ![s].gridfsId = oidCounter',
                                  ![s].wrote = @ \cup {oidCounter'}]
          ELSE NextFile(s, ops[s].uploadedFiles,
                        Append(ops[s].errors,
                               [ filename |-> f.originalname, error |-> BucketError ]),
                        {})
  /\ UNCHANGED << NODE_ENV, readyState, files, history >>

uploadMultipleFiles_save(s) ==
  /\ ops[s].kind = "uploadMultiple" /\ ops[s].pc = "save"
  /\ oidCounter < MaxOids
  /\ oidCounter' = oidCounter + 1
  /\ LET f   == ops[s].files[ops[s].i]
         doc == NewFile(oidCounter + 1, f.originalname, f.mimetype,
                        Len(f.buffer), ops[s].body.category,
                        ops[s].body.description, ops[s].gridfsId)
     IN
     \E outcome \in Outcomes :
       /\ save(doc, f.buffer, outcome)
       /\ supplied' = IF outcome = "resolve"
                      THEN (doc._id :> Supplied(f, ops[s].body)) @@ supplied
                      ELSE supplied
       /\ IF outcome = "resolve"
          THEN NextFile(s, Append(ops[s].uploadedFiles,
                                  [ id           |-> doc._id,
                                    originalName |-> doc.originalName,
                                    mimeType     |-> doc.mimeType,
                                    size         |-> doc.size,
                                    category     |-> doc.category ]),
                        ops[s].errors, {doc._id})
          ELSE NextFile(s, ops[s].uploadedFiles,
                        Append(ops[s].errors,
                               [ filename |-> f.originalname, error |-> SaveError(doc) ]),
                        {})
  /\ UNCHANGED << NODE_ENV, readyState, gridFSBucket, uploads, removed, unlinked, deletedOk, overlapped >>

(***************************************************************************)
(* getFileById: GET /api/files/:id                                         *)
(***************************************************************************)
\* catch (error): 500 with the error's message
getFileById_catch(s, message) ==
  Respond(s, Json(500, FALSE, "Error fetching file", message))

getFileById_request(s, id, overlap) ==
  /\ Admit(s, overlap)
  /\ ops' = [ops EXCEPT ![s] = [Idle EXCEPT !.kind = "getFile", !.id = id,
                                            !.gone = (id \in removed),
                                            !.pc = "ensureConnection"]]
  /\ UNCHANGED << NODE_ENV, readyState, gridFSBucket, oidCounter, stores, history >>

getFileById_ensureConnection(s) ==
  /\ ops[s].kind = "getFile" /\ ops[s].pc = "ensureConnection"
  /\ \E outcome \in Outcomes :
       /\ ensureConnection(outcome)
       /\ IF outcome = "reject"
          THEN getFileById_catch(s, "connect failed")
          ELSE Goto(s, "findById")
  /\ UNCHANGED << NODE_ENV, gridFSBucket, oidCounter, stores, history >>

\* File.findById(id).select('-gridfsId').lean(), then the response
getFileById_findById(s) ==
  /\ ops[s].kind = "getFile" /\ ops[s].pc = "findById"
  /\ \/ /\ readyState = 1
        /\ IF findById(ops[s].id) = NoDoc
           THEN Respond(s, Json(404, FALSE, "File not found", ""))
           ELSE Respond(s, [Json(200, TRUE, "", "")
                              EXCEPT !.file = PublicView(findById(ops[s].id))])
     \/ getFileById_catch(s, "store error")
  /\ UNCHANGED << NODE_ENV, readyState, gridFSBucket, oidCounter, stores, history >>

(***************************************************************************)
(* downloadFile: GET /api/files/:id/download                               *)
(* viewFile:     GET /api/files/:id/view                                   *)
(* The two handlers differ in the disposition and in the message only.     *)
(***************************************************************************)
Disposition(kind) == IF kind = "download" THEN "attachment" ELSE "inline"

RetrieveMessage(kind) ==
  IF kind = "download" THEN "Error downloading file" ELSE "Error viewing file"

Retrieve_request(s, kind, id, overlap) ==
  /\ Admit(s, overlap)
  /\ ops' = [ops EXCEPT ![s] = [Idle EXCEPT !.kind = kind, !.id = id,
                                            !.gone = (id \in removed),
                                            !.pc = "ensureConnection"]]
  /\ UNCHANGED << NODE_ENV, readyState, gridFSBucket, oidCounter, stores, history >>

Retrieve_ensureConnection(s, kind) ==
  /\ ops[s].kind = kind /\ ops[s].pc = "ensureConnection"
  /\ \E outcome \in Outcomes :
       /\ ensureConnection(outcome)
       /\ IF outcome = "reject"
          THEN Respond(s, Json(500, FALSE, RetrieveMessage(kind), "connect failed"))
          ELSE Goto(s, "findById")
  /\ UNCHANGED << NODE_ENV, gridFSBucket, oidCounter, stores, history >>

Retrieve_findById(s, kind) ==
  /\ ops[s].kind = kind /\ ops[s].pc = "findById"
  /\ \/ /\ readyState = 1
        /\ IF findById(ops[s].id) = NoDoc
           THEN Respond(s, Json(404, FALSE, "File not found", ""))
           ELSE ops' = [ops EXCEPT ![s].pc = "downloadFromGridFS",
                                   ![s].file = findById(ops[s].id)]
     \/ Respond(s, Json(500, FALSE, RetrieveMessage(kind), "store error"))
  /\ UNCHANGED << NODE_ENV, readyState, gridFSBucket, oidCounter, stores, history >>

Retrieve_downloadFromGridFS(s, kind) ==
  /\ ops[s].kind = kind /\ ops[s].pc = "downloadFromGridFS"
  /\ gridFSBucket' = getGridFSBucket
  /\ LET file == ops[s].file IN
     \/ /\ CanDownload(file.gridfsId)
        /\ Respond(s, Send(file.mimeType, Disposition(kind),
                           downloadFromGridFS(file.gridfsId)))
     \/ Respond(s, Json(500, FALSE, RetrieveMessage(kind),
                        DownloadError(file.gridfsId)))
  /\ UNCHANGED << NODE_ENV, readyState, oidCounter, stores, history >>

downloadFile_request(s, id, overlap) == Retrieve_request(s, "download", id, overlap)
downloadFile_ensureConnection(s)     == Retrieve_ensureConnection(s, "download")
downloadFile_findById(s)             == Retrieve_findById(s, "download")
downloadFile_downloadFromGridFS(s)   == Retrieve_downloadFromGridFS(s, "download")

viewFile_request(s, id, overlap) == Retrieve_request(s, "view", id, overlap)
viewFile_ensureConnection(s)     == Retrieve_ensureConnection(s, "view")
viewFile_findById(s)             == Retrieve_findById(s, "view")
viewFile_downloadFromGridFS(s)   == Retrieve_downloadFromGridFS(s, "view")

(***************************************************************************)
(* deleteFile: DELETE /api/files/:id                                       *)
(***************************************************************************)
\* a delete of record id has started and has not yet responded
InProgress(id) ==
  \E s \in Slots : /\ ops[s].kind = "delete" /\ ops[s].id = id
                   /\ ops[s].pc \notin { "idle", "done" }

\* history: a delete that ends reporting success is recorded
Reported(s) ==
  deletedOk' =
    IF ops'[s].pc = "done" /\ ops'[s].res.success
    THEN deletedOk \cup {[ id |-> ops[s].id, gridfsId |-> ops[s].file.gridfsId ]}
    ELSE deletedOk

\* mutation: deleting an id that has no record counts as done
deleteFile_notFound_ok(s) ==
  Respond(s, Json(200, TRUE, "File deleted successfully", ""))

\* if (!file): 404
deleteFile_notFound(s) == Respond(s, Json(404, FALSE, "File not found", ""))

\* mutation: errors of the store calls are swallowed
deleteFile_catch_ok(s, message) ==
  Respond(s, Json(200, TRUE, "File deleted successfully", message))

\* catch (error): 500 with the error's message
deleteFile_catch(s, message) ==
  Respond(s, Json(500, FALSE, "Error deleting file", message))

deleteFile_request(s, id, overlap) ==
  /\ Admit(s, overlap)
  /\ ops' = [ops EXCEPT ![s] = [Idle EXCEPT !.kind = "delete", !.id = id,
                                            !.gone = (id \in removed),
                                            !.pc = "ensureConnection"]]
  /\ overlapped' = IF InProgress(id) THEN overlapped \cup {s} ELSE overlapped
  /\ UNCHANGED << NODE_ENV, readyState, gridFSBucket, oidCounter, stores,
                  original, removed, unlinked, deletedOk, supplied >>

deleteFile_ensureConnection(s) ==
  /\ ops[s].kind = "delete" /\ ops[s].pc = "ensureConnection"
  /\ \E outcome \in Outcomes :
       /\ ensureConnection(outcome)
       /\ IF outcome = "reject"
          THEN deleteFile_catch(s, "connect failed")
          ELSE Goto(s, "findById")
  /\ Reported(s)
  /\ UNCHANGED << NODE_ENV, gridFSBucket, oidCounter, stores, original, removed, unlinked, supplied, overlapped >>

deleteFile_findById(s) ==
  /\ ops[s].kind = "delete" /\ ops[s].pc = "findById"
  /\ \/ /\ readyState = 1
        /\ IF findById(ops[s].id) = NoDoc
           THEN deleteFile_notFound(s)
           ELSE ops' = [ops EXCEPT ![s].file = findById(ops[s].id),
                                   ![s].pc = IF findById(ops[s].id).gridfsId # 0
                                             THEN "deleteFromGridFS"
                                             ELSE "findByIdAndDelete"]
     \/ deleteFile_catch(s, "store error")
  /\ Reported(s)
  /\ UNCHANGED << NODE_ENV, readyState, gridFSBucket, oidCounter, stores, original, removed, unlinked, supplied, overlapped >>

deleteFile_deleteFromGridFS(s) ==
  /\ ops[s].kind = "delete" /\ ops[s].pc = "deleteFromGridFS"
  /\ \E outcome \in Outcomes :
       /\ deleteFromGridFS(ops[s].file.gridfsId, outcome)
       /\ IF outcome = "resolve"
          THEN Goto(s, "findByIdAndDelete")
          ELSE deleteFile_catch(s, DownloadError(ops[s].file.gridfsId))
  /\ Reported(s)
  /\ UNCHANGED << NODE_ENV, readyState, oidCounter, files, original, removed, supplied, overlapped >>

deleteFile_findByIdAndDelete(s) ==
  /\ ops[s].kind = "delete" /\ ops[s].pc = "findByIdAndDelete"
  /\ \E outcome \in Outcomes :
       /\ findByIdAndDelete(ops[s].id, outcome)
       /\ IF outcome = "resolve"
          THEN Respond(s, Json(200, TRUE, "File deleted successfully", ""))
          ELSE deleteFile_catch(s, "store error")
  /\ Reported(s)
  /\ UNCHANGED << NODE_ENV, readyState, gridFSBucket, oidCounter, uploads, original, unlinked, supplied, overlapped >>

(***************************************************************************)
(* The environment                                                         *)
(***************************************************************************)
\* the client has its response; the slot serves the next request
Return(s) ==
  /\ ops[s].pc = "done"
  /\ ops' = [ops EXCEPT ![s] = Idle]
  /\ overlapped' = {}
  /\ UNCHANGED << NODE_ENV, readyState, gridFSBucket, oidCounter, stores,
                  original, removed, unlinked, deletedOk, supplied >>

\* the connection to MongoDB drops
ConnectionLost ==
  /\ readyState = 1
  /\ readyState' = 0
  /\ UNCHANGED << NODE_ENV, gridFSBucket, oidCounter, stores, ops, history >>

(***************************************************************************)
(* Specification                                                           *)
(***************************************************************************)
EmptyMap == [x \in {} |-> x]

\* initializeDB() on cold start connects and creates the bucket, or fails
Init ==
  /\ \/ readyState = 1 /\ gridFSBucket = TRUE
     \/ readyState = 0 /\ gridFSBucket = FALSE
  /\ files = EmptyMap
  /\ uploads = EmptyMap
  /\ oidCounter = 0
  /\ ops = [s \in Slots |-> Idle]
  /\ original = EmptyMap
  /\ removed = {}
  /\ unlinked = {}
  /\ deletedOk = {}
  /\ supplied = EmptyMap
  /\ overlapped = {}
  /\ NODE_ENV \in { "production", "development" }

Step(s) ==
  \/ uploadFile_ensureConnection(s)
  \/ uploadFile_uploadToGridFS(s)
  \/ uploadFile_save(s)
  \/ uploadMultipleFiles_ensureConnection(s)
  \/ uploadMultipleFiles_uploadToGridFS(s)
  \/ uploadMultipleFiles_save(s)
  \/ downloadFile_ensureConnection(s)
  \/ downloadFile_findById(s)
  \/ downloadFile_downloadFromGridFS(s)
  \/ viewFile_ensureConnection(s)
  \/ viewFile_findById(s)
  \/ viewFile_downloadFromGridFS(s)
  \/ deleteFile_ensureConnection(s)
  \/ deleteFile_findById(s)
  \/ deleteFile_deleteFromGridFS(s)
  \/ deleteFile_findByIdAndDelete(s)
  \/ Return(s)

\* requests served one at a time
Next ==
  \/ \E s \in Slots : Step(s)
  \/ \E s \in Slots : getFileById_ensureConnection(s)
  \/ \E s \in Slots : getFileById_findById(s)
  \/ \E s \in Slots, req \in SingleRequests : uploadFile_request(s, req, FALSE)
  \/ \E s \in Slots, req \in MultiRequests : uploadMultipleFiles_request(s, req, FALSE)
  \/ \E s \in Slots, id \in IdParams : getFileById_request(s, id, FALSE)
  \/ \E s \in Slots, id \in IdParams : downloadFile_request(s, id, FALSE)
  \/ \E s \in Slots, id \in IdParams : viewFile_request(s, id, FALSE)
  \/ \E s \in Slots, id \in IdParams : deleteFile_request(s, id, FALSE)
  \/ ConnectionLost

Spec == Init /\ [][Next]_vars

\* the requests of the specification with overlapping handlers
OverlapSingleRequests ==
  { [ files |-> << PngFile >>, body |-> PlainBody ],
    [ files |-> << PdfFile >>, body |-> BogusBody ] }

OverlapMultiRequests ==
  { [ files |-> << PngFile, PdfFile >>, body |-> PassportBody ] }

\* a delete request is served while another request is in progress
NextOverlap ==
  \/ \E s \in Slots : Step(s)
  \/ \E s \in Slots, req \in OverlapSingleRequests : uploadFile_request(s, req, FALSE)
  \/ \E s \in Slots, req \in OverlapMultiRequests : uploadMultipleFiles_request(s, req, FALSE)
  \/ \E s \in Slots, id \in IdParams : downloadFile_request(s, id, FALSE)
  \/ \E s \in Slots, id \in IdParams : viewFile_request(s, id, FALSE)
  \/ \E s \in Slots, id \in IdParams : deleteFile_request(s, id, TRUE)
  \/ ConnectionLost

\* the deployment the README describes sets NODE_ENV to production
OverlapInit == Init /\ NODE_ENV = "production"

OverlapSpec == OverlapInit /\ [][NextOverlap]_vars

TypeOK ==
  /\ readyState \in {0, 1}
  /\ gridFSBucket \in BOOLEAN
  /\ oidCounter \in 0..MaxOids
  /\ DOMAIN files \subseteq 1..MaxOids
  /\ DOMAIN uploads \subseteq 1..MaxOids
  /\ DOMAIN supplied = DOMAIN original
  /\ overlapped \subseteq Slots
  /\ NODE_ENV \in { "production", "development" }

(***************************************************************************)
(* Vocabulary of the properties                                            *)
(***************************************************************************)
Done(s) == ops[s].pc = "done"

UploadKinds == { "upload", "uploadMultiple" }

HasDisallowedType(parts) ==
  \E k \in 1..Len(parts) : parts[k].mimetype \notin allowedTypes

HasOversized(parts) ==
  \E k \in 1..Len(parts) : Len(parts[k].buffer) > MaxFileSize

\* the messages of the errors of a blob-store call
BlobStoreErrors == { "store error", "GridFS bucket not initialized" }

(***************************************************************************)
(* C1                                                                      *)
(***************************************************************************)
\* C1 as stated: whenever no operation is in progress on a FileRecord, the
\* blob its gridfsId references exists in the bucket.
C1_NoDanglingRecord ==
  \A id \in DOMAIN files :
    ~InProgress(id) => files[id].gridfsId \in DOMAIN uploads

\* C1, amended: a FileRecord references a blob that is missing from the
\* bucket only if a delete operation removed that blob (and has not removed,
\* or has failed to remove, the record); uploads never leave a record
\* without its blob.
C1_DanglingOnlyAfterBlobDelete ==
  \A id \in DOMAIN files :
    \/ files[id].gridfsId \in DOMAIN uploads
    \/ files[id].gridfsId \in unlinked

\* a record left behind by a delete whose record deletion failed
C1_Witness ==
  \E id \in DOMAIN files :
    /\ files[id].gridfsId \notin DOMAIN uploads
    /\ \A s \in Slots : ops[s].kind = "idle"

(***************************************************************************)
(* C2                                                                      *)
(***************************************************************************)
\* C2: the step of a single upload in which the blob write fails (the bucket
\* gains no blob) ends the request with a 500 JSON error, success:false, and
\* leaves the File collection as it was; the request has created no record.
C2_BlobFailureCreatesNoRecord ==
  [][ \A s \in Slots :
        ( /\ ops[s].kind = "upload" /\ ops[s].pc = "uploadToGridFS"
          /\ ops'[s] # ops[s]
          /\ uploads' = uploads )
        => ( /\ files' = files
             /\ ops'[s].pc = "done"
             /\ ops'[s].created = {}
             /\ ops'[s].res.json /\ ~ops'[s].res.success
             /\ ops'[s].res.status = 500 ) ]_vars

\* a single upload that failed because the bucket was not initialized
C2_Witness ==
  \E s \in Slots :
    /\ ops[s].kind = "upload" /\ Done(s)
    /\ ops[s].wrote = {} /\ ops[s].created = {}
    /\ ops[s].res.error = "GridFS bucket not initialized"

(***************************************************************************)
(* C3                                                                      *)
(***************************************************************************)
\* C3: an upload request with a file part of a disallowed content type is
\* answered 400, success:false, and has written no blob and no record.
C3_DisallowedTypeRejected ==
  \A s \in Slots :
    (ops[s].kind \in UploadKinds /\ HasDisallowedType(ops[s].files))
    => ( /\ Done(s)
         /\ ops[s].res.status = 400
         /\ ops[s].res.json /\ ~ops[s].res.success
         /\ ops[s].wrote = {} /\ ops[s].created = {} )

\* a multi-upload rejected for its second part, after stores were filled
C3_Witness ==
  \E s \in Slots :
    /\ ops[s].kind = "uploadMultiple" /\ Done(s)
    /\ HasDisallowedType(ops[s].files)
    /\ ops[s].res.status = 400
    /\ DOMAIN files # {}

(***************************************************************************)
(* C4                                                                      *)
(***************************************************************************)
\* the response reports a validation failure
ValidationFailure(res) ==
  res.status = 400 \/ res.error = "File validation failed"

\* C4 as stated: an upload that ends in a validation failure has written no
\* blob.
C4_ValidationBeforeAnyWrite ==
  \A s \in Slots :
    (ops[s].kind = "upload" /\ Done(s) /\ ValidationFailure(ops[s].res))
    => ops[s].wrote = {}

\* C4, amended: the validation failures of the HTTP boundary (missing
\* payload, disallowed content type, oversized payload) are surfaced with no
\* store write; a violated FileRecord field constraint is detected only by
\* save(), after the blob was written: the upload fails with its blob left
\* in the bucket and no record.
C4_OnlyBoundaryValidationBeforeWrite ==
  \A s \in Slots :
    /\ ( /\ ops[s].kind \in UploadKinds
         /\ \/ HasDisallowedType(ops[s].files)
            \/ HasOversized(ops[s].files)
            \/ Len(ops[s].files) = 0 )
       => (ops[s].wrote = {} /\ ops[s].created = {} /\ ~ops[s].res.success)
    /\ (ops[s].kind \in UploadKinds /\ Done(s) /\ ops[s].res.status = 400)
       => (ops[s].wrote = {} /\ ops[s].created = {})
    /\ ( /\ ops[s].kind = "upload" /\ Done(s)
         /\ ops[s].res.error = "File validation failed" )
       => ( /\ ops[s].wrote # {}
            /\ ops[s].wrote \subseteq DOMAIN uploads
            /\ ops[s].created = {}
            /\ ops[s].res.status = 500 )

\* an upload with an unknown category: failed, its blob in the bucket
C4_Witness ==
  \E s \in Slots :
    /\ ops[s].kind = "upload" /\ Done(s)
    /\ ops[s].body.category \notin categoryEnum \cup { "" }
    /\ ops[s].res.error = "File validation failed"
    /\ ops[s].wrote # {}

(***************************************************************************)
(* C5                                                                      *)
(***************************************************************************)
\* C5 as stated: a multi-upload of N payloads that reached the service
\* answers with N-k succeeded records and k error entries, whatever fails
\* for single payloads, and the succeeded ids are retrievable.
C5_PerPayloadIsolation ==
  \A s \in Slots :
    ( /\ ops[s].kind = "uploadMultiple" /\ Done(s)
      /\ Len(ops[s].files) > 0
      /\ ops[s].res.error # "connect failed" )
    => ( /\ ops[s].res.success
         /\ Len(ops[s].res.files) + Len(ops[s].res.errors) = Len(ops[s].files)
         /\ \A k \in 1..Len(ops[s].res.files) :
              findById(ops[s].res.files[k].id) # NoDoc )

(***************************************************************************)
(* C6                                                                      *)
(***************************************************************************)
\* C6: once a delete of an id has reported success, the File collection has
\* no record of that id and the bucket has no blob of the id the record
\* referenced, and no later download or view of the id returns bytes.
C6_DeletedStaysGone ==
  /\ \A d \in deletedOk :
       /\ findById(d.id) = NoDoc
       /\ d.gridfsId \notin DOMAIN uploads
       /\ d.id \in removed
  /\ \A s \in Slots :
       (ops[s].kind \in { "download", "view" } /\ ops[s].gone /\ Done(s))
       => ops[s].res.status \in { 404, 500 }

\* a lookup made after a successful delete of the id has answered 404
C6_Witness ==
  \E d \in deletedOk : \E s \in Slots :
    /\ ops[s].kind \in { "download", "view" } /\ Done(s)
    /\ ops[s].id = d.id /\ ops[s].gone
    /\ ops[s].res.status = 404

(***************************************************************************)
(* C7                                                                      *)
(***************************************************************************)
\* C7 as stated: a delete that found its record, and whose blob is missing
\* from the bucket, does not fail on that account: unless a store call
\* failed, it reports success and the record is gone.
C7_MissingBlobTolerated ==
  \A s \in Slots :
    ( /\ ops[s].kind = "delete" /\ Done(s)
      /\ ops[s].file # NoDoc
      /\ ops[s].file.gridfsId \notin DOMAIN uploads
      /\ ops[s].res.error \notin BlobStoreErrors \cup { "connect failed" } )
    => (ops[s].res.success /\ findById(ops[s].id) = NoDoc)

(***************************************************************************)
(* C8                                                                      *)
(***************************************************************************)
\* C8: a delete reports success only when the record has been removed from
\* the File collection; a delete that found its record and leaves it in the
\* collection answers with a 500 JSON error, success:false.
C8_SuccessOnlyIfRecordRemoved ==
  \A s \in Slots :
    (ops[s].kind = "delete" /\ Done(s))
    => /\ ops[s].res.success
          => (ops[s].id \notin DOMAIN files /\ ops[s].id \in removed)
       /\ (ops[s].file # NoDoc /\ ops[s].id \in DOMAIN files)
          => ( /\ ~ops[s].res.success /\ ops[s].res.json
               /\ ops[s].res.status = 500 )

\* the record deletion failed after the blob deletion succeeded
C8_Witness ==
  \E s \in Slots :
    /\ ops[s].kind = "delete" /\ Done(s)
    /\ ops[s].id \in DOMAIN files
    /\ ops[s].file.gridfsId \in unlinked
    /\ ops[s].res.error = "store error"
    /\ ops[s].res.status = 500

(***************************************************************************)
(* C9                                                                      *)
(***************************************************************************)
\* C9 as stated: a delete of an id whose record was already deleted answers
\* 404.
C9_DeleteTwiceNotFound ==
  \A s \in Slots :
    (ops[s].kind = "delete" /\ ops[s].gone /\ Done(s))
    => (ops[s].res.status = 404 /\ ~ops[s].res.success)

\* C9, amended: a delete of an id whose record was already deleted never
\* reports success and changes neither store; it answers 404 when its
\* lookup completes, and the handler's 500 error when the connection or the
\* lookup fails.
C9_DeleteTwiceNeverSucceeds ==
  [][ \A s \in Slots :
        ( /\ ops[s].kind = "delete" /\ ops[s].gone
          /\ ops[s].pc # "done"
          /\ ops'[s] # ops[s] )
        => ( /\ files' = files /\ uploads' = uploads
             /\ ops'[s].pc \in { "findById", "done" }
             /\ ops'[s].pc = "done"
                => ( /\ ~ops'[s].res.success /\ ops'[s].res.json
                     /\ \/ ops'[s].res.status = 404
                        \/ /\ ops'[s].res.status = 500
                           /\ ops'[s].res.error \in { "connect failed", "store error" } ) ) ]_vars

\* the second delete of an id has answered 404
C9_Witness ==
  \E s \in Slots :
    /\ ops[s].kind = "delete" /\ ops[s].gone /\ Done(s)
    /\ ops[s].id \in removed
    /\ ops[s].res.status = 404

(***************************************************************************)
(* C10                                                                     *)
(***************************************************************************)
\* C10: the bytes a download or an inline view of an id returns are the
\* bytes that were uploaded for that id.
C10_RoundTrip ==
  \A s \in Slots :
    (ops[s].kind \in { "download", "view" } /\ Done(s) /\ ops[s].res.status = 200)
    => ( /\ ops[s].id \in DOMAIN original
         /\ ops[s].res.data = original[ops[s].id]
         /\ ops[s].res.disposition = Disposition(ops[s].kind) )

\* a file of more than one chunk read back after another upload and a
\* delete of another id
C10_Witness ==
  \E s \in Slots :
    /\ ops[s].kind \in { "download", "view" } /\ Done(s)
    /\ ops[s].res.status = 200
    /\ Len(ops[s].res.data) > ChunkSize
    /\ removed # {}
    /\ Cardinality(DOMAIN original) > 1

(***************************************************************************)
(* C11                                                                     *)
(***************************************************************************)
\* a successful lookup of a record by its id
Fetched(s) ==
  /\ ops[s].kind = "getFile" /\ Done(s)
  /\ ops[s].res.status = 200
  /\ ops[s].id \in DOMAIN supplied

\* stored is sent without its leading and trailing whitespace
Stripped(stored, sent) ==
  /\ Len(stored) > 0 => (Head(stored) # SPACE /\ stored[Len(stored)] # SPACE)
  /\ \E i, j \in 0..Len(sent) :
       sent = Fill(i, SPACE) \o stored \o Fill(j, SPACE)

\* C11 as stated: looking a created record up by its id returns the
\* originalName, mimeType, size, category and description that were supplied
\* at upload, for every name and description within the length limits.
C11_IdenticalToSupplied ==
  \A s \in Slots :
    Fetched(s)
    => LET got  == ops[s].res.file
           sent == supplied[ops[s].id]
       IN /\ got.originalName = sent.originalName
          /\ got.mimeType = sent.mimeType
          /\ got.size = sent.size
          /\ sent.category # "" => got.category = sent.category
          /\ got.description = sent.description

\* C11, amended: looking a created record up by its id returns the mimeType
\* and size supplied at upload, the category supplied (`other` when none was
\* supplied), and the originalName and description supplied with their
\* leading and trailing whitespace removed.
C11_IdenticalAfterTrim ==
  \A s \in Slots :
    Fetched(s)
    => LET got  == ops[s].res.file
           sent == supplied[ops[s].id]
       IN /\ got.id = ops[s].id
          /\ Stripped(got.originalName, sent.originalName)
          /\ got.mimeType = sent.mimeType
          /\ got.size = sent.size
          /\ got.category = (IF sent.category = "" THEN "other" ELSE sent.category)
          /\ Stripped(got.description, sent.description)

\* a record whose name and description were sent with surrounding
\* whitespace has been looked up
C11_Witness ==
  \E s \in Slots :
    /\ Fetched(s)
    /\ ops[s].res.file.originalName # supplied[ops[s].id].originalName
    /\ ops[s].res.file.description # supplied[ops[s].id].description
    /\ Len(ops[s].res.file.originalName) > 0
    /\ Len(ops[s].res.file.description) > 0

(***************************************************************************)
(* C12                                                                     *)
(***************************************************************************)
\* the messages of the errors of a failed connection or store call
StoreFailures == BlobStoreErrors \cup { "connect failed" }

\* C12 as stated: an upload whose category field is absent or is not one of
\* the enumerated values produces a FileRecord whose category is `other`
\* (when the boundary admits the file, its name and description are within
\* the limits and no store call fails), and the category of every stored
\* FileRecord is one of the enumerated values.
C12_FallbackToOther ==
  /\ \A id \in DOMAIN files : files[id].category \in categoryEnum
  /\ \A s \in Slots :
       ( /\ ops[s].kind = "upload" /\ Done(s)
         /\ ops[s].body.category \notin categoryEnum
         /\ ops[s].res.status # 400
         /\ ops[s].res.error \notin StoreFailures
         /\ Len(Trim(ops[s].files[1].originalname)) \in 1..NameMaxLength
         /\ Len(Trim(ops[s].body.description)) <= DescMaxLength )
       => ( /\ ops[s].res.success
            /\ ops[s].res.file.category = "other"
            /\ ops[s].res.file.id \in ops[s].created )

(***************************************************************************)
(* C13                                                                     *)
(***************************************************************************)
\* C13 as stated: every failure response of a file operation is JSON with
\* success:false, and when the service runs in production mode no failure
\* response carries the text of the underlying error.
C13_NoErrorDetailInProduction ==
  \A s \in Slots :
    (Done(s) /\ ops[s].res.status >= 400)
    => ( /\ ops[s].res.json
         /\ ~ops[s].res.success
         /\ NODE_ENV = "production" => ops[s].res.error = "" )

(***************************************************************************)
(* C14                                                                     *)
(***************************************************************************)
\* slots s and t hold two deletes of the same id that ran concurrently; the
\* record had been created and had not been deleted when they arrived
ConcurrentDeletes(s, t) ==
  /\ s # t
  /\ ops[s].kind = "delete" /\ ops[t].kind = "delete"
  /\ ops[s].id = ops[t].id
  /\ s \in overlapped \/ t \in overlapped
  /\ ops[s].id \in DOMAIN original
  /\ ~ops[s].gone /\ ~ops[t].gone

\* C14 as stated: when two deletes of the same existing id run concurrently,
\* at most one of them reports success, and once both have finished neither
\* the FileRecord nor its blob remains in its store.
C14_ConcurrentDeletesRemoveBoth ==
  \A s, t \in Slots :
    (ConcurrentDeletes(s, t) /\ Done(s) /\ Done(t))
    => ( /\ ~(ops[s].res.success /\ ops[t].res.success)
         /\ ops[s].id \notin DOMAIN files
         /\ \A b \in DOMAIN uploads : b \notin { ops[s].file.gridfsId,
                                                 ops[t].file.gridfsId } )

\* C14, amended: when two deletes of the same existing id run concurrently,
\* at most one of them reports success and the other answers 404 or 500; if
\* one reports success, neither the FileRecord nor its blob remains once
\* both have finished; if neither does, a connection or store call of one
\* of them failed, or the record had lost its blob before, or an earlier
\* delete removed the record.
C14_AtMostOneSuccess ==
  \A s, t \in Slots :
    (ConcurrentDeletes(s, t) /\ Done(s) /\ Done(t))
    => ( /\ ~(ops[s].res.success /\ ops[t].res.success)
         /\ ~ops[t].res.success => ops[t].res.status \in { 404, 500 }
         /\ ops[s].res.success
            => ( /\ ops[s].id \notin DOMAIN files
                 /\ ops[s].file.gridfsId \notin DOMAIN uploads
                 /\ ops[t].file # NoDoc
                    => ops[t].file.gridfsId = ops[s].file.gridfsId )
         /\ (~ops[s].res.success /\ ~ops[t].res.success)
            => \/ ops[s].res.error \in StoreFailures
               \/ ops[t].res.error \in StoreFailures
               \/ ops[s].id \in removed
               \/ /\ ops[s].id \in DOMAIN files
                  /\ files[ops[s].id].gridfsId \in unlinked )

\* both deletes found the record; one removed blob and record and reported
\* success, the other found the blob gone and answered 500
C14_Witness ==
  \E s, t \in Slots :
    /\ ConcurrentDeletes(s, t) /\ Done(s) /\ Done(t)
    /\ ops[s].res.success
    /\ ops[t].file # NoDoc
    /\ ops[t].res.status = 500 /\ ops[t].res.error = "FileNotFound"
    /\ ops[s].id \in removed

====
